---- MODULE Spec2Model ----
(***************************************************************************)
(* Model of src/parser.py: class Parser, which drives a browser session,   *)
(* intercepts the GraphQL requests of a profile page, maps the JSON        *)
(* responses of two endpoints into self.data and dumps self.data to a      *)
(* file.                                                                   *)
(*                                                                         *)
(* Python dicts are functions with a finite domain of string keys, so      *)
(* "k in d" is k \in DOMAIN d; Python lists are sequences (Python index i  *)
(* is index i + 1 here).  A call that raises yields Raised, a call that    *)
(* returns v yields Ok(v).                                                 *)
(***************************************************************************)
EXTENDS Integers, Sequences, FiniteSets, TLC

VARIABLES
    TWIT_COUNT,   \* Parser.TWIT_COUNT, the configured cap
    data,         \* self.data
    pc,           \* position of run()/parse()
    file,         \* what save_results has written: <<>> or <<document>>
    url,          \* request.url of the last interception event
    fetched,      \* the responses route.fetch() returned in the last event
    calls,        \* the calls the last event made, in order
    overwrote,    \* the keys the last event assigned that self.data already had
    raised        \* whether the last event left the handler by an exception

vars == <<TWIT_COUNT, data, pc, file, url, fetched, calls, overwrote, raised>>

\* Bounds of the model
MaxCap == 3
MaxEntries == 2

----------------------------------------------------------------------------
\* Python values

None == "None"

EmptyDict == [k \in {} |-> 0]

Ok(v) == [ok |-> TRUE, val |-> v]

Raised == [ok |-> FALSE]

Has(d, k) == k \in DOMAIN d

\* d.get(k): None when the key is missing
Get(d, k) == IF Has(d, k) THEN d[k] ELSE None

\* d.get(k, default)
GetOr(d, k, default) == IF Has(d, k) THEN d[k] ELSE default

\* d[k1][k2]...: whether every subscript finds its key
RECURSIVE HasPath(_, _)
HasPath(d, ks) ==
    IF ks = <<>> THEN TRUE
    ELSE Has(d, Head(ks)) /\ HasPath(d[Head(ks)], Tail(ks))

RECURSIVE Walk(_, _)
Walk(d, ks) == IF ks = <<>> THEN d ELSE Walk(d[Head(ks)], Tail(ks))

\* s[:n + 1] in the place of s[:n]: a slice that is one too long
PySlice_one_more(s, n) ==
    LET m == n + 1
        stop == IF m >= 0 THEN (IF m < Len(s) THEN m ELSE Len(s))
                ELSE (IF Len(s) + m > 0 THEN Len(s) + m ELSE 0)
    IN  SubSeq(s, 1, stop)

\* s[:n], Python's slice: a negative n counts from the end
PySlice(s, n) ==
    LET stop == IF n >= 0 THEN (IF n < Len(s) THEN n ELSE Len(s))
                ELSE (IF Len(s) + n > 0 THEN Len(s) + n ELSE 0)
    IN  SubSeq(s, 1, stop)

\* "needle in request.url", the URL being its sequence of segments
Contains(u, needle) == \E i \in DOMAIN u : u[i] = needle

----------------------------------------------------------------------------
\* Field mapping

ProfilePath == <<"data", "user", "result", "legacy">>

get_profile(d) ==
    IF ~HasPath(d, ProfilePath) THEN Raised
    ELSE LET profile == Walk(d, ProfilePath)
         IN  Ok([username     |-> Get(profile, "screen_name"),
                 display_name |-> Get(profile, "name"),
                 followers    |-> Get(profile, "followers_count"),
                 following    |-> Get(profile, "friends_count"),
                 tweets_count |-> Get(profile, "statuses_count"),
                 profile_url  |-> Get(profile, "profile_banner_url"),
                 avatar       |-> Get(profile, "profile_image_url_https")])

TweetMandatory ==
    {"created_at", "full_text", "quote_count", "reply_count", "retweet_count"}

\* tweet_parse without the "if tweet_media": media is always set
tweet_parse_always_media(legacy) ==
    IF ~(TweetMandatory \subseteq DOMAIN legacy) THEN Raised
    ELSE
      LET tweet == [created_at     |-> legacy["created_at"],
                    text           |-> legacy["full_text"],
                    quote_count    |-> legacy["quote_count"],
                    reply_count    |-> legacy["reply_count"],
                    retweet_count  |-> legacy["retweet_count"],
                    bookmark_count |-> GetOr(legacy, "bookmark_count", 0)]
          tweet_media == GetOr(GetOr(legacy, "entities", EmptyDict), "media", <<>>)
      IN  IF \A i \in DOMAIN tweet_media : Has(tweet_media[i], "media_url_https")
          THEN Ok(tweet @@
                  [media |-> [i \in DOMAIN tweet_media |->
                                [url |-> tweet_media[i]["media_url_https"]]]])
          ELSE Raised

tweet_parse(legacy) ==
    IF ~(TweetMandatory \subseteq DOMAIN legacy) THEN Raised
    ELSE
      LET tweet == [created_at     |-> legacy["created_at"],
                    text           |-> legacy["full_text"],
                    quote_count    |-> legacy["quote_count"],
                    reply_count    |-> legacy["reply_count"],
                    retweet_count  |-> legacy["retweet_count"],
                    bookmark_count |-> GetOr(legacy, "bookmark_count", 0)]
          tweet_media == GetOr(GetOr(legacy, "entities", EmptyDict), "media", <<>>)
      IN  IF tweet_media # <<>>
          THEN IF \A i \in DOMAIN tweet_media : Has(tweet_media[i], "media_url_https")
               THEN Ok(tweet @@
                       [media |-> [i \in DOMAIN tweet_media |->
                                     [url |-> tweet_media[i]["media_url_https"]]]])
               ELSE Raised
          ELSE Ok(tweet)

----------------------------------------------------------------------------
\* Timeline extraction

InstructionsPath ==
    <<"data", "user", "result", "timeline_v2", "timeline", "instructions">>

FirstPath ==
    <<"entry", "content", "itemContent", "tweet_results", "result", "legacy">>

EntryPath == <<"content", "itemContent", "tweet_results", "result", "legacy">>

\* the loop of get_tweets over the sliced entries, appending to tweets
RECURSIVE AppendEntries(_, _)
AppendEntries(tweets, rest) ==
    IF rest = <<>> THEN Ok(tweets)
    ELSE IF ~HasPath(Head(rest), EntryPath) THEN Raised
    ELSE LET t == tweet_parse(Walk(Head(rest), EntryPath))
         IN  IF t.ok THEN AppendEntries(Append(tweets, t.val), Tail(rest))
             ELSE Raised

get_tweets(d) ==
    IF ~HasPath(d, InstructionsPath) THEN Raised
    ELSE
      LET instructions == Walk(d, InstructionsPath)
      IN  IF ~(2 \in DOMAIN instructions /\ HasPath(instructions[2], FirstPath))
          THEN Raised
          ELSE
            LET first == tweet_parse(Walk(instructions[2], FirstPath))
            IN  IF ~first.ok THEN Raised
                ELSE IF ~(3 \in DOMAIN instructions /\ Has(instructions[3], "entries"))
                THEN Raised
                ELSE AppendEntries(<<first.val>>,
                                   PySlice(instructions[3]["entries"], TWIT_COUNT - 1))

----------------------------------------------------------------------------
\* The interception handler

ProfileName == "UserByScreenName"

TweetsName == "UserTweets"

UserKey == "user"

\* the posts stored under another key
TweetsKey_posts == "posts"

TweetsKey == "tweets"

\* self.data.setdefault(key, value): a key that is present keeps its value
Store_keep(d, key, value) ==
    IF key \in DOMAIN d THEN d
    ELSE [k \in DOMAIN d \cup {key} |-> IF k = key THEN value ELSE d[k]]

\* self.data[key] = value
Store(d, key, value) ==
    [k \in DOMAIN d \cup {key} |-> IF k = key THEN value ELSE d[k]]

\* intercept_request with "else" in the place of the second "if": every
\* request that is not a profile request is treated as a posts request
intercept_request_else(d, u, r1, r2) ==
    LET isProfile == Contains(u, ProfileName)
        isTweets  == ~isProfile
        user      == get_profile(r1)
        s1 == IF ~isProfile
              THEN [data |-> d, fetched |-> <<>>, calls |-> <<>>,
                    overwrote |-> {}, raised |-> FALSE]
              ELSE IF user.ok
              THEN [data |-> Store(d, UserKey, user.val),
                    fetched |-> <<r1>>, calls |-> <<"fetch", "set_user">>,
                    overwrote |-> {UserKey} \cap DOMAIN d, raised |-> FALSE]
              ELSE [data |-> d, fetched |-> <<r1>>, calls |-> <<"fetch">>,
                    overwrote |-> {}, raised |-> TRUE]
        tweets    == get_tweets(r2)
        s2 == IF s1.raised \/ ~isTweets THEN s1
              ELSE IF tweets.ok
              THEN [data |-> Store(s1.data, TweetsKey, tweets.val),
                    fetched |-> Append(s1.fetched, r2),
                    calls |-> s1.calls \o <<"fetch", "set_tweets">>,
                    overwrote |-> s1.overwrote \cup ({TweetsKey} \cap DOMAIN s1.data),
                    raised |-> FALSE]
              ELSE [data |-> s1.data, fetched |-> Append(s1.fetched, r2),
                    calls |-> Append(s1.calls, "fetch"),
                    overwrote |-> s1.overwrote, raised |-> TRUE]
    IN  IF s2.raised THEN s2
        ELSE [s2 EXCEPT !.calls = Append(s2.calls, "continue")]

\* intercept_request on self.data = d, request.url = u; r1 and r2 are what
\* route.fetch().json() returns to the first and to the second branch.
\* The result is self.data afterwards, the responses fetched, the calls made
\* in order, the keys assigned that self.data already had, and whether an
\* exception left the handler (there is no try/except: whatever get_profile
\* or get_tweets raises leaves the handler before route.continue_()).
intercept_request(d, u, r1, r2) ==
    LET isProfile == Contains(u, ProfileName)
        isTweets  == Contains(u, TweetsName)
        user      == get_profile(r1)
        s1 == IF ~isProfile
              THEN [data |-> d, fetched |-> <<>>, calls |-> <<>>,
                    overwrote |-> {}, raised |-> FALSE]
              ELSE IF user.ok
              THEN [data |-> Store(d, UserKey, user.val),
                    fetched |-> <<r1>>, calls |-> <<"fetch", "set_user">>,
                    overwrote |-> {UserKey} \cap DOMAIN d, raised |-> FALSE]
              ELSE [data |-> d, fetched |-> <<r1>>, calls |-> <<"fetch">>,
                    overwrote |-> {}, raised |-> TRUE]
        tweets    == get_tweets(r2)
        s2 == IF s1.raised \/ ~isTweets THEN s1
              ELSE IF tweets.ok
              THEN [data |-> Store(s1.data, TweetsKey, tweets.val),
                    fetched |-> Append(s1.fetched, r2),
                    calls |-> s1.calls \o <<"fetch", "set_tweets">>,
                    overwrote |-> s1.overwrote \cup ({TweetsKey} \cap DOMAIN s1.data),
                    raised |-> FALSE]
              ELSE [data |-> s1.data, fetched |-> Append(s1.fetched, r2),
                    calls |-> Append(s1.calls, "fetch"),
                    overwrote |-> s1.overwrote, raised |-> TRUE]
    IN  IF s2.raised THEN s2
        ELSE [s2 EXCEPT !.calls = Append(s2.calls, "continue")]

----------------------------------------------------------------------------
\* Inputs: the requests the page makes and the bodies the endpoints return

Urls == { <<"graphql", "Viewer">>,
          <<"graphql", ProfileName>>,
          <<"graphql", TweetsName>>,
          <<"graphql", ProfileName, TweetsName>> }

LegacyBase(text) ==
    [created_at |-> "Mon Jan 01", full_text |-> text,
     quote_count |-> 1, reply_count |-> 2, retweet_count |-> 3]

LegacyPlain == LegacyBase("a") @@ [bookmark_count |-> 5]

LegacyMedia ==
    LegacyBase("b") @@
    [entities |-> [media |-> << [media_url_https |-> "m1"],
                                [media_url_https |-> "m2"] >>]]

LegacyEmptyMedia ==
    LegacyBase("c") @@ [bookmark_count |-> 5, entities |-> [media |-> <<>>]]

LegacyNoMediaKey == LegacyBase("d") @@ [entities |-> [hashtags |-> <<>>]]

LegacyNoText == [created_at |-> "Mon Jan 01", quote_count |-> 1,
                 reply_count |-> 2, retweet_count |-> 3]

LegacyBadMedia ==
    LegacyBase("e") @@ [entities |-> [media |-> << [id_str |-> "7"] >>]]

Wrap(legacy) ==
    [content |-> [itemContent |-> [tweet_results |-> [result |-> [legacy |-> legacy]]]]]

\* a cursor entry of the timeline: no post inside
CursorEntry == [content |-> [cursorType |-> "Bottom"]]

Entries == {Wrap(LegacyPlain), Wrap(LegacyMedia), CursorEntry}

SeqsUpTo(S, n) == UNION {[1..k -> S] : k \in 0..n}

Body(result) == [data |-> [user |-> [result |-> result]]]

Timeline(instructions) ==
    [timeline_v2 |-> [timeline |-> [instructions |-> instructions]]]

PinnedTimeline(first, entries) ==
    Timeline(<< [type |-> "TimelineClearCache"],
                [type |-> "TimelinePinEntry", entry |-> Wrap(first)],
                [type |-> "TimelineAddEntries", entries |-> entries] >>)

\* the timeline of an account without a pinned post
UnpinnedTimeline ==
    Timeline(<< [type |-> "TimelineClearCache"],
                [type |-> "TimelineAddEntries", entries |-> <<Wrap(LegacyPlain)>>] >>)

UserFull ==
    [legacy |-> [screen_name |-> "u1", name |-> "n1", followers_count |-> 10,
                 friends_count |-> 20, statuses_count |-> 30,
                 profile_banner_url |-> "b1", profile_image_url_https |-> "i1"]]

UserNoBanner ==
    [legacy |-> [screen_name |-> "u2", name |-> "n2", followers_count |-> 11,
                 friends_count |-> 21, statuses_count |-> 31]]

ErrorBody == [errors |-> <<"NotFound">>]

ProfileResponses == {Body(UserFull), Body(UserNoBanner), ErrorBody}

TimelineResponses ==
    {Body(PinnedTimeline(LegacyPlain, es)) : es \in SeqsUpTo(Entries, MaxEntries)}
    \cup {Body(PinnedTimeline(LegacyEmptyMedia, <<Wrap(LegacyMedia)>>)),
          Body(PinnedTimeline(LegacyNoText, <<>>)),
          Body(PinnedTimeline(LegacyPlain, <<Wrap(LegacyBadMedia)>>)),
          Body(UnpinnedTimeline),
          ErrorBody}

\* bodies of a request whose URL names both endpoints
BothResponses ==
    {Body(UserFull @@ PinnedTimeline(LegacyNoMediaKey, <<Wrap(LegacyMedia)>>)),
     Body(UserNoBanner),
     Body(PinnedTimeline(LegacyPlain, <<>>))}

\* what route.fetch().json() can return for a request to u
Responses(u) ==
    IF Contains(u, ProfileName) /\ Contains(u, TweetsName) THEN BothResponses
    ELSE IF Contains(u, ProfileName) THEN ProfileResponses
    ELSE IF Contains(u, TweetsName) THEN TimelineResponses
    ELSE {}

\* stands for the response of a fetch that is not made
NoResponse == EmptyDict

----------------------------------------------------------------------------
\* The session: run() = parse() then save_results()

Init ==
    /\ TWIT_COUNT \in 0..MaxCap
    /\ data = EmptyDict
    /\ pc = "init"
    /\ file = <<>>
    /\ url = <<>>
    /\ fetched = <<>>
    /\ calls = <<>>
    /\ overwrote = {}
    /\ raised = FALSE

\* parse() up to page.goto: the browser is launched, the handler registered
Goto ==
    /\ pc = "init"
    /\ pc' = "goto"
    /\ UNCHANGED <<TWIT_COUNT, data, file, url, fetched, calls, overwrote, raised>>

\* page.goto returns: the network is idle
GotoDone ==
    /\ pc = "goto"
    /\ pc' = "wait"
    /\ UNCHANGED <<TWIT_COUNT, data, file, url, fetched, calls, overwrote, raised>>

\* page.goto raises: parse() and run() end by that exception
GotoFail ==
    /\ pc = "goto"
    /\ pc' = "nav_failed"
    /\ UNCHANGED <<TWIT_COUNT, data, file, url, fetched, calls, overwrote, raised>>

\* The page driver delivers one request to the handler, while page.goto or
\* page.wait_for_timeout is running.  An exception that leaves the handler
\* is the driver's to treat: it is dropped, or it ends parse().
InterceptRequest ==
    /\ pc \in {"goto", "wait"}
    /\ \E u \in Urls :
       \E r1 \in (IF Contains(u, ProfileName) THEN Responses(u) ELSE {NoResponse}),
          r2 \in (IF Contains(u, TweetsName) THEN Responses(u) ELSE {NoResponse}) :
         LET out == intercept_request(data, u, r1, r2)
         IN  /\ url' = u
             /\ data' = out.data
             /\ fetched' = out.fetched
             /\ calls' = out.calls
             /\ overwrote' = out.overwrote
             /\ raised' = out.raised
             /\ IF out.raised THEN pc' \in {pc, "aborted"} ELSE pc' = pc
    /\ UNCHANGED <<TWIT_COUNT, file>>

\* page.wait_for_timeout(7000) returns, the browser is closed, parse() returns
WaitDone ==
    /\ pc = "wait"
    /\ pc' = "parsed"
    /\ UNCHANGED <<TWIT_COUNT, data, file, url, fetched, calls, overwrote, raised>>

\* json.dump(self.data, file)
save_results ==
    /\ pc = "parsed"
    /\ file' = <<data>>
    /\ pc' = "saved"
    /\ UNCHANGED <<TWIT_COUNT, data, url, fetched, calls, overwrote, raised>>

Next ==
    \/ Goto
    \/ GotoDone
    \/ GotoFail
    \/ InterceptRequest
    \/ WaitDone
    \/ save_results

Spec == Init /\ [][Next]_vars

\* The timer of wait_for_timeout fires and run() goes on: the steps of the
\* session are taken eventually; the page need not make any request.
FairSpec ==
    /\ Spec
    /\ WF_vars(Goto)
    /\ WF_vars(GotoDone \/ GotoFail)
    /\ WF_vars(WaitDone)
    /\ WF_vars(save_results)

----------------------------------------------------------------------------
\* The last interception event, as the checked properties see it

IsProfileUrl == Contains(url, ProfileName)

IsTweetsUrl == Contains(url, TweetsName)

WroteUser == Contains(calls, "set_user")

WroteTweets == Contains(calls, "set_tweets")

\* the timeline response of the last event, when its posts branch fetched one
TimelineBody == fetched[Len(fetched)]

LastInstructions == Walk(TimelineBody, InstructionsPath)

FirstFragment == Walk(LastInstructions[2], FirstPath)

LastEntries == LastInstructions[3]["entries"]

\* the fragment the i-th returned post was decoded from
Fragment(i) == IF i = 1 THEN FirstFragment ELSE Walk(LastEntries[i - 1], EntryPath)

Min(a, b) == IF a < b THEN a ELSE b

Count(s, x) == Cardinality({i \in DOMAIN s : s[i] = x})

\* a fetched response of the last event that its mapper or extractor rejected
MapperFailed ==
    \/ IsProfileUrl /\ Len(fetched) >= 1 /\ ~get_profile(fetched[1]).ok
    \/ IsTweetsUrl /\ ~WroteTweets /\ Len(fetched) >= 1
          /\ (IsProfileUrl => Len(fetched) = 2)
          /\ ~get_tweets(TimelineBody).ok

----------------------------------------------------------------------------
\* C1: for every cap >= 0 the sequence get_tweets returns has at most cap
\* elements and its first element is the mapped post of instruction index 1.
C1_CapAndFirst ==
    WroteTweets =>
        /\ Len(data[TweetsKey]) <= TWIT_COUNT
        /\ data[TweetsKey][1] = tweet_parse(FirstFragment).val

\* C2: a request whose URL names neither endpoint makes no fetch, leaves
\* self.data as it was and is forwarded: the event makes the one call
\* route.continue_() and no exception leaves the handler.
C2_PassThrough ==
    [][(pc' = pc /\ ~Contains(url', ProfileName) /\ ~Contains(url', TweetsName))
          => (/\ data' = data
              /\ fetched' = <<>>
              /\ calls' = <<"continue">>
              /\ raised' = FALSE)]_vars

C2_Witness ==
    /\ url = <<"graphql", "Viewer">>
    /\ calls = <<"continue">>
    /\ DOMAIN data = {UserKey, TweetsKey}

\* C3: when the mapper or the extractor rejects the fetched response, the
\* failure stays inside the handler: the request is still forwarded, no
\* exception leaves the handler and the session is not ended by it.
C3_FailureCaught ==
    MapperFailed =>
        /\ calls[Len(calls)] = "continue"
        /\ ~raised
        /\ pc # "aborted"

\* C4: every interception event forwards the request exactly once, as its
\* last call, after every fetch and every write of the event.
C4_ForwardOnce ==
    url # <<>> =>
        /\ Count(calls, "continue") = 1
        /\ calls[Len(calls)] = "continue"

\* C5 as claimed: no event assigns a key that self.data already has.
C5_WriteOnce == overwrote = {}

\* C5 as amended: the store is last-write-wins per field.  After an event
\* whose mapping succeeded the key holds the record mapped from that event's
\* response, whatever an earlier request had stored there.
C5_LastWriteWins ==
    /\ WroteUser => data[UserKey] = get_profile(fetched[1]).val
    /\ WroteTweets => data[TweetsKey] = get_tweets(TimelineBody).val
    /\ overwrote \subseteq DOMAIN data

C5_Witness ==
    /\ overwrote = {TweetsKey}
    /\ WroteTweets
    /\ data[TweetsKey] = get_tweets(TimelineBody).val
    /\ Len(data[TweetsKey]) = 1

\* C6: the post of instruction index 1 occurs exactly once in the sequence
\* get_tweets returns, also when the entries contain it (stated for the caps
\* >= 1, which the slice honours).
C6_PinnedOnce ==
    (WroteTweets /\ TWIT_COUNT >= 1) =>
        Count(data[TweetsKey], data[TweetsKey][1]) = 1

\* C7 as claimed: the keys of self.data, and of the document written, are
\* among "user" and "posts".
C7_KeysUserPosts ==
    /\ DOMAIN data \subseteq {"user", "posts"}
    /\ file # <<>> => DOMAIN file[1] \subseteq {"user", "posts"}

\* C7 as amended: the keys of self.data, and of the document written, are
\* among "user" and "tweets"; an event adds "user" only on a profile match
\* and "tweets" only on a posts match.
C7_KeysUserTweets ==
    /\ DOMAIN data \subseteq {"user", "tweets"}
    /\ file # <<>> => DOMAIN file[1] \subseteq {"user", "tweets"}
    /\ WroteUser => (IsProfileUrl /\ "user" \in DOMAIN data)
    /\ WroteTweets => (IsTweetsUrl /\ "tweets" \in DOMAIN data)

C7_Witness ==
    /\ pc = "saved"
    /\ DOMAIN data = {"user", "tweets"}
    /\ DOMAIN file[1] = {"user", "tweets"}

\* C8: once page.goto has returned, the session reaches save_results and
\* the document written is self.data, whatever was captured.
C8_ReachesSerialization == (pc = "wait") ~> (pc = "saved" /\ file = <<data>>)

\* the timeline response of the last event has a first post that decodes and
\* an entries sequence
FirstDecodes ==
    /\ HasPath(TimelineBody, InstructionsPath)
    /\ Len(LastInstructions) >= 3
    /\ HasPath(LastInstructions[2], FirstPath)
    /\ tweet_parse(FirstFragment).ok
    /\ "entries" \in DOMAIN LastInstructions[3]

\* C9: for a cap >= 1, get_tweets returns min(cap, 1 + len(entries)) posts:
\* the mapped post of instruction index 1, then the mapped entries in order;
\* with cap = 1 no entry is decoded, so a timeline whose first post decodes
\* yields that one post whatever its entries are.
C9_ExactPrefix ==
    /\ (WroteTweets /\ TWIT_COUNT >= 1) =>
          /\ Len(data[TweetsKey]) = Min(TWIT_COUNT, 1 + Len(LastEntries))
          /\ \A i \in DOMAIN data[TweetsKey] :
                data[TweetsKey][i] = tweet_parse(Fragment(i)).val
    /\ (/\ TWIT_COUNT = 1
        /\ IsTweetsUrl
        /\ ~IsProfileUrl
        /\ FirstDecodes)
          => (WroteTweets /\ data[TweetsKey] = <<tweet_parse(FirstFragment).val>>)

C9_Witness ==
    /\ TWIT_COUNT = 2
    /\ WroteTweets
    /\ Len(LastEntries) = 2
    /\ LastEntries[1] = Wrap(LegacyMedia)
    /\ LastEntries[2] = CursorEntry
    /\ data[TweetsKey] = <<tweet_parse(FirstFragment).val, tweet_parse(LegacyMedia).val>>

\* C10: a mapped post has the key media exactly when the fragment's media
\* list is present and not empty, and then media holds one item per entry of
\* the list, in order, with that entry's URL.
C10_MediaIff ==
    WroteTweets =>
        \A i \in DOMAIN data[TweetsKey] :
            LET frag == Fragment(i)
                post == data[TweetsKey][i]
                listed == /\ "entities" \in DOMAIN frag
                          /\ "media" \in DOMAIN frag["entities"]
                          /\ Len(frag["entities"]["media"]) > 0
            IN  /\ ("media" \in DOMAIN post) <=> listed
                /\ listed =>
                      /\ Len(post["media"]) = Len(frag["entities"]["media"])
                      /\ \A j \in DOMAIN post["media"] :
                            post["media"][j] =
                              [url |-> frag["entities"]["media"][j]["media_url_https"]]

C10_Witness ==
    /\ WroteTweets
    /\ Len(data[TweetsKey]) = 2
    /\ FirstFragment = LegacyEmptyMedia
    /\ "media" \notin DOMAIN data[TweetsKey][1]
    /\ Fragment(2) = LegacyMedia
    /\ data[TweetsKey][2]["media"] = <<[url |-> "m1"], [url |-> "m2"]>>

====
